---- MODULE Spec2Model ----
(***************************************************************************)
(* Lazy elementwise expression templates of EDXNet                         *)
(* (EDXNet/Core/TemplateExpression.h).                                     *)
(*                                                                         *)
(* The heap `nodes` holds the expression objects; a composite node refers  *)
(* to its operands by their position in the heap, as the C++ nodes hold    *)
(* `const T&` references.  Every object of the model stays alive: the      *)
(* lifetime precondition of the header (operands outlive the nodes built   *)
(* from them) is assumed throughout.  TScalarExp<T> is instantiated with   *)
(* T = float, the type Eval returns.                                       *)
(*                                                                         *)
(* The tensor type, BroadcastShape, TensorIndex, the Math library and the  *)
(* loop that materialises an expression live in other files of the         *)
(* repository; they are modelled from the design document.                 *)
(***************************************************************************)
EXTENDS Integers, Sequences, FiniteSets, TLC

VARIABLES
    nodes,   \* the expression objects, in order of construction
    birth,   \* per node: the variables' values when the node was constructed
    mem,     \* the float variables a TScalarExp may refer to
    built,   \* number of composition calls executed
    call,    \* the last call executed, with its arguments and its result
    run      \* the materialisation in progress or just ended

vars == <<nodes, birth, mem, built, call, run>>

(***************************************************************************)
(* Bounds of the model.                                                    *)
(***************************************************************************)
MaxNodes == 2    \* composition calls per behaviour
MaxIndex == 1    \* largest flat index a direct Eval call passes to a tree without tensors
MaxExact == 16384    \* largest numerator or denominator of a float the model tracks

(***************************************************************************)
(* float.  A value is a rational n/d in lowest terms (k = "fin"), an       *)
(* infinity (k = "inf", n its sign), a NaN, or a                           *)
(* value the model does not track (k = "opq"): the result of a             *)
(* transcendental function, or a rational outside the range MaxExact.      *)
(* Rounding and the sign of zero are not tracked.                          *)
(***************************************************************************)
RECURSIVE GCD(_, _)
GCD(a, b) == IF b = 0 THEN a ELSE GCD(b, a % b)

AbsInt(a) == IF a < 0 THEN -a ELSE a

SignInt(a) == IF a > 0 THEN 1 ELSE IF a < 0 THEN -1 ELSE 0

F(n) == [k |-> "fin", n |-> n, d |-> 1]
NaN == [k |-> "nan", n |-> 0, d |-> 1]
Inf(s) == [k |-> "inf", n |-> s, d |-> 1]
Opaque == [k |-> "opq", n |-> 0, d |-> 1]

Norm(n, d) ==
    LET g == GCD(AbsInt(n), AbsInt(d))
        s == SignInt(d)
        rn == (s * n) \div g
        rd == (s * d) \div g
    IN IF AbsInt(rn) > MaxExact \/ rd > MaxExact
       THEN Opaque
       ELSE [k |-> "fin", n |-> rn, d |-> rd]
Unset == [k |-> "unset", n |-> 0, d |-> 1]

FSign(a) == SignInt(a.n)

FNeg(a) == [a EXCEPT !.n = -a.n]

FAdd(a, b) ==
    IF a.k = "nan" \/ b.k = "nan" THEN NaN
    ELSE IF a.k = "opq" \/ b.k = "opq" THEN Opaque
    ELSE IF a.k = "inf" /\ b.k = "inf" THEN (IF a.n = b.n THEN a ELSE NaN)
    ELSE IF a.k = "inf" THEN a
    ELSE IF b.k = "inf" THEN b
    ELSE Norm(a.n * b.d + b.n * a.d, a.d * b.d)

FMul(a, b) ==
    IF a.k = "nan" \/ b.k = "nan" THEN NaN
    ELSE IF a.k = "opq" \/ b.k = "opq" THEN Opaque
    ELSE IF a.k = "inf" \/ b.k = "inf"
         THEN (IF FSign(a) * FSign(b) = 0 THEN NaN ELSE Inf(FSign(a) * FSign(b)))
    ELSE Norm(a.n * b.n, a.d * b.d)

FDiv(a, b) ==
    IF a.k = "nan" \/ b.k = "nan" THEN NaN
    ELSE IF a.k = "opq" \/ b.k = "opq" THEN Opaque
    ELSE IF a.k = "inf" /\ b.k = "inf" THEN NaN
    ELSE IF a.k = "inf" THEN Inf(IF FSign(b) < 0 THEN -a.n ELSE a.n)
    ELSE IF b.k = "inf" THEN F(0)
    ELSE IF b.n = 0 THEN (IF a.n = 0 THEN NaN ELSE Inf(FSign(a)))
    ELSE Norm(a.n * b.d, a.d * b.n)

\* a > b: "true" or "false", and "unknown" when an operand is not tracked
FGreater(a, b) ==
    IF a.k = "opq" \/ b.k = "opq" THEN "unknown"
    ELSE IF a.k = "nan" \/ b.k = "nan" THEN "false"
    ELSE IF a.k = "fin" /\ b.k = "fin" THEN (IF a.n * b.d > b.n * a.d THEN "true" ELSE "false")
    ELSE IF a.k = "inf" /\ b.k = "fin" THEN (IF a.n > 0 THEN "true" ELSE "false")
    ELSE IF a.k = "fin" /\ b.k = "inf" THEN (IF b.n < 0 THEN "true" ELSE "false")
    ELSE (IF a.n > b.n THEN "true" ELSE "false")

\* t ? a : b, a value the model does not track when t is unknown
Cond(t, a, b) == IF t = "true" THEN a ELSE IF t = "false" THEN b ELSE Opaque

(***************************************************************************)
(* Math library (EDXUtil): exp, sqrt, square, log, abs.                    *)
(***************************************************************************)
RECURSIVE ISqrt(_, _)
ISqrt(n, r) == IF r * r >= n THEN r ELSE ISqrt(n, r + 1)

Math_Square(a) == FMul(a, a)

Math_Abs(a) == IF a.k \in {"fin", "inf"} /\ a.n < 0 THEN FNeg(a) ELSE a

Math_Exp(a) ==
    IF a.k = "nan" THEN NaN
    ELSE IF a.k = "opq" THEN Opaque
    ELSE IF a.k = "inf" THEN (IF a.n > 0 THEN a ELSE F(0))
    ELSE IF a.n = 0 THEN F(1)
    ELSE Opaque

Math_Log(a) ==
    IF a.k = "nan" THEN NaN
    ELSE IF a.k = "opq" THEN Opaque
    ELSE IF a.n < 0 THEN NaN
    ELSE IF a.k = "inf" THEN a
    ELSE IF a.n = 0 THEN Inf(-1)
    ELSE IF a.n = a.d THEN F(0)
    ELSE Opaque

Math_Sqrt(a) ==
    IF a.k = "nan" THEN NaN
    ELSE IF a.k = "opq" THEN Opaque
    ELSE IF a.n < 0 THEN NaN
    ELSE IF a.k = "inf" THEN a
    ELSE LET rn == ISqrt(a.n, 0)
             rd == ISqrt(a.d, 0)
         IN IF rn * rn = a.n /\ rd * rd = a.d THEN Norm(rn, rd) ELSE Opaque

(***************************************************************************)
(* Operation functors.                                                     *)
(***************************************************************************)
AddOp_Exec(a, b) == FAdd(a, b)

MinusOp_Exec(a, b) == FAdd(a, FNeg(b))

MulOp_Exec(a, b) == FMul(a, b)

DivOp_Exec(a, b) == FDiv(a, b)

ExpOp_Exec(val) == Math_Exp(val)

SqrtOp_Exec(val) == Math_Sqrt(val)

SquareOp_Exec(val) == Math_Square(val)

LogOp_Exec(val) == Math_Log(val)

\* ReluOp with the comparison inverted
ReluOp_Exec_Inverted(val) == Cond(FGreater(F(0), val), val, F(0))

ReluOp_Exec(val) == Cond(FGreater(val, F(0)), val, F(0))

AbsOp_Exec(val) == Math_Abs(val)

BinaryOps == {"AddOp", "MinusOp", "MulOp", "DivOp"}

UnaryOps == {"ExpOp", "SqrtOp", "SquareOp", "LogOp", "ReluOp", "AbsOp"}

\* TOp::Exec with TOp a template argument of TBinaryExp
BinaryExec(op, a, b) ==
    CASE op = "AddOp" -> AddOp_Exec(a, b)
      [] op = "MinusOp" -> MinusOp_Exec(a, b)
      [] op = "MulOp" -> MulOp_Exec(a, b)
      [] op = "DivOp" -> DivOp_Exec(a, b)

\* TOp::Exec with TOp a template argument of TUnaryExp
UnaryExec(op, val) ==
    CASE op = "ExpOp" -> ExpOp_Exec(val)
      [] op = "SqrtOp" -> SqrtOp_Exec(val)
      [] op = "SquareOp" -> SquareOp_Exec(val)
      [] op = "LogOp" -> LogOp_Exec(val)
      [] op = "ReluOp" -> ReluOp_Exec(val)
      [] op = "AbsOp" -> AbsOp_Exec(val)

(***************************************************************************)
(* Shapes, BroadcastShape and TensorIndex.                                 *)
(***************************************************************************)
ShapeOk(dims) == [ok |-> TRUE, dims |-> dims]
ShapeFail == [ok |-> FALSE, dims |-> <<>>]

MaxInt(a, b) == IF a >= b THEN a ELSE b

\* the shape padded on the left with size-1 axes to rank r
PadLeft(dims, r) == [j \in 1..r |-> IF j <= r - Len(dims) THEN 1 ELSE dims[j - (r - Len(dims))]]

AxisCompatible(x, y) == x = y \/ x = 1 \/ y = 1

BroadcastShape(a, b) ==
    LET r == MaxInt(Len(a), Len(b))
        pa == PadLeft(a, r)
        pb == PadLeft(b, r)
    IN IF \A j \in 1..r : AxisCompatible(pa[j], pb[j])
       THEN ShapeOk([j \in 1..r |-> MaxInt(pa[j], pb[j])])
       ELSE ShapeFail

RECURSIVE Product(_)
Product(dims) == IF dims = <<>> THEN 1 ELSE Head(dims) * Product(Tail(dims))

\* the product of the sizes of the axes after axis j
Stride(dims, j) == Product(SubSeq(dims, j + 1, Len(dims)))

\* TensorIndex built from a flat index and a shape: row-major, trailing axis fastest
TensorIndex(i, dims) == [j \in 1..Len(dims) |-> (i \div Stride(dims, j)) % dims[j]]

(***************************************************************************)
(* Expression nodes.                                                       *)
(***************************************************************************)
NoNode == 0

TensorLeaf(shape, data) ==
    [kind |-> "tensor", op |-> "", lhs |-> NoNode, rhs |-> NoNode, ref |-> "",
     val |-> NaN, shape |-> shape, data |-> data]

TScalarExp(ref) ==
    [kind |-> "scalar", op |-> "", lhs |-> NoNode, rhs |-> NoNode, ref |-> ref,
     val |-> NaN, shape |-> <<>>, data |-> <<>>]

TConstantExp(val, shape) ==
    [kind |-> "const", op |-> "", lhs |-> NoNode, rhs |-> NoNode, ref |-> "",
     val |-> val, shape |-> shape, data |-> <<>>]

TBinaryExp(op, lhs, rhs) ==
    [kind |-> "binary", op |-> op, lhs |-> lhs, rhs |-> rhs, ref |-> "",
     val |-> NaN, shape |-> <<>>, data |-> <<>>]

TUnaryExp(op, param) ==
    [kind |-> "unary", op |-> op, lhs |-> param, rhs |-> NoNode, ref |-> "",
     val |-> NaN, shape |-> <<>>, data |-> <<>>]

Entry(n, i, c, ret) == [node |-> n, i |-> i, c |-> c, ret |-> ret]

RECURSIVE Eval(_, _, _)
RECURSIVE Shape(_)

\* Tensor::Eval: the output coordinate mapped to the tensor's own storage, an
\* axis of size 1 read at offset 0.  A read outside the storage (a coordinate
\* that is not one of a shape the tensor broadcasts to) yields a value the
\* model does not track.
Tensor_Eval(n, i, c) ==
    LET s == nodes[n].shape
        off == Len(c) - Len(s)
        pos(j) == IF s[j] = 1 THEN 0 ELSE c[off + j]
        RECURSIVE Offset(_)
        Offset(j) == IF j > Len(s) THEN 0 ELSE pos(j) * Stride(s, j) + Offset(j + 1)
        inside == off >= 0 /\ \A j \in 1..Len(s) : pos(j) < s[j]
        ret == IF inside THEN nodes[n].data[Offset(1) + 1] ELSE Opaque
    IN [ret |-> ret, log |-> {Entry(n, i, c, ret)}]

Tensor_Shape(n) == ShapeOk(nodes[n].shape)

\* TScalarExp::Eval reading the value as element i of a one-element array
TScalarExp_Eval_AtZero(n, i, c) ==
    LET ret == IF i = 0 THEN mem[nodes[n].ref] ELSE F(0)
    IN [ret |-> ret, log |-> {Entry(n, i, c, ret)}]

\* TScalarExp::Eval with a result that depends on the evaluations performed so far
TScalarExp_Eval_Stateful(n, i, c) ==
    LET ret == FAdd(mem[nodes[n].ref], F(run.evals))
    IN [ret |-> ret, log |-> {Entry(n, i, c, ret)}]

\* TScalarExp holding a copy of the value taken at construction
TScalarExp_Eval_Copy(n, i, c) ==
    LET ret == birth[n][nodes[n].ref]
    IN [ret |-> ret, log |-> {Entry(n, i, c, ret)}]

TScalarExp_Eval(n, i, c) ==
    LET ret == mem[nodes[n].ref]
    IN [ret |-> ret, log |-> {Entry(n, i, c, ret)}]

TScalarExp_Shape(n) == ShapeOk(<<1>>)

\* TBinaryExp::Eval with the operands exchanged
TBinaryExp_Eval_Swapped(n, i, c) ==
    LET l == Eval(nodes[n].lhs, i, c)
        r == Eval(nodes[n].rhs, i, c)
        ret == BinaryExec(nodes[n].op, r.ret, l.ret)
    IN [ret |-> ret, log |-> l.log \cup r.log \cup {Entry(n, i, c, ret)}]

TBinaryExp_Eval(n, i, c) ==
    LET l == Eval(nodes[n].lhs, i, c)
        r == Eval(nodes[n].rhs, i, c)
        ret == BinaryExec(nodes[n].op, l.ret, r.ret)
    IN [ret |-> ret, log |-> l.log \cup r.log \cup {Entry(n, i, c, ret)}]

\* TBinaryExp::Shape returning the left operand's shape
TBinaryExp_Shape_LhsOnly(n) == Shape(nodes[n].lhs)

\* TBinaryExp::Shape taking the larger size per axis without the compatibility check
TBinaryExp_Shape_Unchecked(n) ==
    LET l == Shape(nodes[n].lhs)
        r == Shape(nodes[n].rhs)
        k == MaxInt(Len(l.dims), Len(r.dims))
    IN IF l.ok /\ r.ok
       THEN ShapeOk([j \in 1..k |-> MaxInt(PadLeft(l.dims, k)[j], PadLeft(r.dims, k)[j])])
       ELSE ShapeFail

TBinaryExp_Shape(n) ==
    LET l == Shape(nodes[n].lhs)
        r == Shape(nodes[n].rhs)
    IN IF l.ok /\ r.ok THEN BroadcastShape(l.dims, r.dims) ELSE ShapeFail

TUnaryExp_Eval(n, i, c) ==
    LET p == Eval(nodes[n].lhs, i, c)
        ret == UnaryExec(nodes[n].op, p.ret)
    IN [ret |-> ret, log |-> p.log \cup {Entry(n, i, c, ret)}]

\* TUnaryExp::Shape returning the shape of a scalar
TUnaryExp_Shape_One(n) == ShapeOk(<<1>>)

TUnaryExp_Shape(n) == Shape(nodes[n].lhs)

TConstantExp_Eval(n, i, c) ==
    LET ret == nodes[n].val
    IN [ret |-> ret, log |-> {Entry(n, i, c, ret)}]

\* TConstantExp::Shape returning the declared shape flattened to rank 1
TConstantExp_Shape_Flat(n) == ShapeOk(<<Product(nodes[n].shape)>>)

TConstantExp_Shape(n) == ShapeOk(nodes[n].shape)

\* TExp::Self: the call is bound to the node's own type
Eval(n, i, c) ==
    CASE nodes[n].kind = "tensor" -> Tensor_Eval(n, i, c)
      [] nodes[n].kind = "scalar" -> TScalarExp_Eval(n, i, c)
      [] nodes[n].kind = "const" -> TConstantExp_Eval(n, i, c)
      [] nodes[n].kind = "binary" -> TBinaryExp_Eval(n, i, c)
      [] nodes[n].kind = "unary" -> TUnaryExp_Eval(n, i, c)

Shape(n) ==
    CASE nodes[n].kind = "tensor" -> Tensor_Shape(n)
      [] nodes[n].kind = "scalar" -> TScalarExp_Shape(n)
      [] nodes[n].kind = "const" -> TConstantExp_Shape(n)
      [] nodes[n].kind = "binary" -> TBinaryExp_Shape(n)
      [] nodes[n].kind = "unary" -> TUnaryExp_Shape(n)

\* the nodes an Eval or Shape call on n visits
RECURSIVE Subtree(_)
Subtree(n) ==
    CASE nodes[n].kind = "binary" -> {n} \cup Subtree(nodes[n].lhs) \cup Subtree(nodes[n].rhs)
      [] nodes[n].kind = "unary" -> {n} \cup Subtree(nodes[n].lhs)
      [] OTHER -> {n}

KindsUnder(n) == {nodes[m].kind : m \in Subtree(n)}

(***************************************************************************)
(* Composition.  A call returns the node it constructs and the work it     *)
(* performed on the way: whether any Eval, any functor Exec or any         *)
(* BroadcastShape ran.                                                     *)
(***************************************************************************)
NoWork == [evals |-> FALSE, execs |-> FALSE, broadcasts |-> FALSE]

Scalar(ref) == [node |-> TScalarExp(ref), work |-> NoWork]

\* ElementWiseBinaryOpExpression resolving the shape when the node is constructed
ElementWiseBinaryOpExpression_Eager(op, lhs, rhs) ==
    [node |-> TBinaryExp(op, lhs, rhs), work |-> [NoWork EXCEPT !.broadcasts = TRUE]]

ElementWiseBinaryOpExpression(op, lhs, rhs) == [node |-> TBinaryExp(op, lhs, rhs), work |-> NoWork]

operator_plus(lhs, rhs) == ElementWiseBinaryOpExpression("AddOp", lhs, rhs)

operator_minus(lhs, rhs) == ElementWiseBinaryOpExpression("MinusOp", lhs, rhs)

operator_times(lhs, rhs) == ElementWiseBinaryOpExpression("MulOp", lhs, rhs)

operator_divide(lhs, rhs) == ElementWiseBinaryOpExpression("DivOp", lhs, rhs)

ElementWiseUnaryOpExpression(op, param) == [node |-> TUnaryExp(op, param), work |-> NoWork]

ExponentExp(param) == ElementWiseUnaryOpExpression("ExpOp", param)

SqrtExp(param) == ElementWiseUnaryOpExpression("SqrtOp", param)

SquareExp(param) == ElementWiseUnaryOpExpression("SquareOp", param)

LogExp(param) == ElementWiseUnaryOpExpression("LogOp", param)

AbsExp(param) == ElementWiseUnaryOpExpression("AbsOp", param)

ReluActivateExp(param) == ElementWiseUnaryOpExpression("ReluOp", param)

BinaryFns == {"operator+", "operator-", "operator*", "operator/"}

UnaryFns == {"ExponentExp", "SqrtExp", "SquareExp", "LogExp", "AbsExp", "ReluActivateExp"}

LeafFns == {"Scalar", "TConstantExp"}

CompositionFns == LeafFns \cup BinaryFns \cup UnaryFns

(***************************************************************************)
(* The program's inputs.                                                   *)
(***************************************************************************)
VarNames == {"x"}

\* the values the variable x takes
FloatPool == {F(2), F(0)}

\* the shapes a TConstantExp is declared with
ConstShapes == {<<>>, <<3>>, <<2, 2>>}

\* the coordinates a direct Eval call passes to a tree without tensors
CoordPool == {<<0>>, <<1, 2>>}

TensorA == TensorLeaf(<<3>>, <<F(1), F(2), F(3)>>)
TensorB == TensorLeaf(<<3>>, <<F(10), F(10), F(10)>>)
TensorV == TensorLeaf(<<3>>, <<F(-2), F(0), F(3)>>)
TensorP == TensorLeaf(<<2, 1>>, <<F(1), F(2)>>)
TensorQ == TensorLeaf(<<2>>, <<F(10), F(20)>>)

\* the named leaves that exist when composition starts
Environments ==
    { <<TensorA, TensorB, TScalarExp("x")>>,
      <<TensorV, TensorQ>>,
      <<TensorP, TensorQ>> }

NoBirth == [v \in VarNames |-> Unset]

NoArgs == [ref |-> "", val |-> NaN, dims |-> <<>>, lhs |-> NoNode, rhs |-> NoNode]

NoCall ==
    [fn |-> "", node |-> NoNode, i |-> 0, c |-> <<>>, args |-> NoArgs, ret |-> Unset,
     sh |-> ShapeFail, log |-> {}, work |-> NoWork]

Idle == [status |-> "idle", dims |-> <<>>, out |-> <<>>, evals |-> 0]

Root == Len(nodes)

Init ==
    /\ nodes \in Environments
    /\ mem = [v \in VarNames |-> F(2)]
    /\ birth = [n \in 1..Len(nodes) |-> IF nodes[n].kind = "scalar" THEN mem ELSE NoBirth]
    /\ built = 0
    /\ call = NoCall
    /\ run = Idle

(***************************************************************************)
(* Composition calls.                                                      *)
(***************************************************************************)
CanCompose == run.status # "running" /\ built < MaxNodes

Construct(fn, made, args, born) ==
    /\ nodes' = Append(nodes, made.node)
    /\ birth' = Append(birth, born)
    /\ built' = built + 1
    /\ call' = [NoCall EXCEPT !.fn = fn, !.node = Len(nodes) + 1, !.args = args,
                              !.work = made.work]
    /\ run' = Idle
    /\ UNCHANGED mem

ScalarCall ==
    /\ CanCompose
    /\ \E v \in VarNames :
          Construct("Scalar", Scalar(v), [NoArgs EXCEPT !.ref = v], mem)

ConstantCall ==
    /\ CanCompose
    /\ \E v \in VarNames, s \in ConstShapes :
          Construct("TConstantExp", [node |-> TConstantExp(mem[v], s), work |-> NoWork],
                    [NoArgs EXCEPT !.ref = v, !.val = mem[v], !.dims = s], mem)

BinaryCompose(fn, lhs, rhs) ==
    CASE fn = "operator+" -> operator_plus(lhs, rhs)
      [] fn = "operator-" -> operator_minus(lhs, rhs)
      [] fn = "operator*" -> operator_times(lhs, rhs)
      [] fn = "operator/" -> operator_divide(lhs, rhs)

BinaryCall ==
    /\ CanCompose
    /\ \E fn \in BinaryFns, lhs \in 1..Len(nodes), rhs \in 1..Len(nodes) :
          Construct(fn, BinaryCompose(fn, lhs, rhs),
                    [NoArgs EXCEPT !.lhs = lhs, !.rhs = rhs], NoBirth)

UnaryCompose(fn, param) ==
    CASE fn = "ExponentExp" -> ExponentExp(param)
      [] fn = "SqrtExp" -> SqrtExp(param)
      [] fn = "SquareExp" -> SquareExp(param)
      [] fn = "LogExp" -> LogExp(param)
      [] fn = "AbsExp" -> AbsExp(param)
      [] fn = "ReluActivateExp" -> ReluActivateExp(param)

UnaryCall ==
    /\ CanCompose
    /\ \E fn \in UnaryFns, param \in 1..Len(nodes) :
          Construct(fn, UnaryCompose(fn, param), [NoArgs EXCEPT !.lhs = param], NoBirth)

\* the caller assigns to the variable a TScalarExp may refer to
Assign ==
    /\ run.status # "running"
    /\ \E v \in VarNames, f \in FloatPool :
          /\ f # mem[v]
          /\ mem' = [mem EXCEPT ![v] = f]
          /\ call' = [NoCall EXCEPT !.fn = "Assign", !.args = [NoArgs EXCEPT !.ref = v, !.val = f]]
    /\ run' = Idle
    /\ UNCHANGED <<nodes, birth, built>>

(***************************************************************************)
(* Calls on the built tree, rooted at the node constructed last.           *)
(***************************************************************************)
ShapeWork(n) == [NoWork EXCEPT !.broadcasts = "binary" \in KindsUnder(n)]

EvalWork(n) == [NoWork EXCEPT !.evals = TRUE, !.execs = nodes[n].kind \in {"binary", "unary"}]

ShapeCall ==
    /\ run.status # "running"
    /\ call' = [NoCall EXCEPT !.fn = "Shape", !.node = Root, !.sh = Shape(Root),
                              !.work = ShapeWork(Root)]
    /\ run' = Idle
    /\ UNCHANGED <<nodes, birth, mem, built>>

\* the (flatIndex, coordinate) pairs a caller may pass to Eval on n: those of the
\* tree's own shape when a tensor is read, any otherwise
EvalInputs(n) ==
    IF "tensor" \in KindsUnder(n)
    THEN IF Shape(n).ok
         THEN {<<i, TensorIndex(i, Shape(n).dims)>> : i \in 0..(Product(Shape(n).dims) - 1)}
         ELSE {}
    ELSE (0..MaxIndex) \X CoordPool

EvalRecord(n, i, c) ==
    LET e == Eval(n, i, c)
    IN [NoCall EXCEPT !.fn = "Eval", !.node = n, !.i = i, !.c = c, !.ret = e.ret,
                      !.log = e.log, !.work = EvalWork(n)]

EvalCall ==
    /\ run.status # "running"
    /\ \E in \in EvalInputs(Root) : call' = EvalRecord(Root, in[1], in[2])
    /\ run' = Idle
    /\ UNCHANGED <<nodes, birth, mem, built>>

(***************************************************************************)
(* Materialisation (Tensor::operator=): the shape once, then one Eval per  *)
(* output position, the positions in any order.                            *)
(***************************************************************************)
Materialize ==
    /\ run.status # "running"
    /\ LET sh == Shape(Root)
       IN /\ run' = IF sh.ok
                    THEN [status |-> "running", dims |-> sh.dims,
                          out |-> [j \in 1..Product(sh.dims) |-> Unset], evals |-> 0]
                    ELSE [status |-> "failed", dims |-> <<>>, out |-> <<>>, evals |-> 0]
          /\ call' = [NoCall EXCEPT !.fn = "Materialize", !.node = Root, !.sh = sh,
                                    !.work = ShapeWork(Root)]
    /\ UNCHANGED <<nodes, birth, mem, built>>

MaterializeStep ==
    /\ run.status = "running"
    /\ \E j \in {p \in 1..Len(run.out) : run.out[p] = Unset} :
          LET rec == EvalRecord(Root, j - 1, TensorIndex(j - 1, run.dims))
              out == [run.out EXCEPT ![j] = rec.ret]
          IN /\ call' = rec
             /\ run' = [run EXCEPT !.out = out, !.evals = run.evals + 1,
                                   !.status = IF \E p \in 1..Len(out) : out[p] = Unset
                                              THEN "running" ELSE "done"]
    /\ UNCHANGED <<nodes, birth, mem, built>>

Next ==
    \/ ScalarCall
    \/ ConstantCall
    \/ BinaryCall
    \/ UnaryCall
    \/ Assign
    \/ ShapeCall
    \/ EvalCall
    \/ Materialize
    \/ MaterializeStep

Spec == Init /\ [][Next]_vars

(***************************************************************************)
(* Vocabulary of the properties.                                           *)
(***************************************************************************)
IsLeaf(n) == nodes[n].kind \in {"tensor", "scalar", "const"}

\* the shape a leaf declares, read from its fields
DeclaredShape(n) == IF nodes[n].kind = "scalar" THEN <<1>> ELSE nodes[n].shape

\* the leaves below n, left to right
RECURSIVE Leaves(_)
Leaves(n) ==
    CASE nodes[n].kind = "binary" -> Leaves(nodes[n].lhs) \o Leaves(nodes[n].rhs)
      [] nodes[n].kind = "unary" -> Leaves(nodes[n].lhs)
      [] OTHER -> <<n>>

RECURSIVE FoldBroadcast(_, _)
FoldBroadcast(acc, ls) ==
    IF ls = <<>> \/ ~acc.ok THEN acc
    ELSE FoldBroadcast(BroadcastShape(acc.dims, DeclaredShape(Head(ls))), Tail(ls))

\* no aligned axis has both sizes greater than 1 and unequal
ShapesCompatible(a, b) ==
    \A k \in 1..(IF Len(a) <= Len(b) THEN Len(a) ELSE Len(b)) :
        LET x == a[Len(a) - k + 1]
            y == b[Len(b) - k + 1]
        IN ~(x > 1 /\ y > 1 /\ x # y)

\* binary node m combines two incompatible shapes
MalformedAt(m) ==
    /\ nodes[m].kind = "binary"
    /\ Shape(nodes[m].lhs).ok
    /\ Shape(nodes[m].rhs).ok
    /\ ~ShapesCompatible(Shape(nodes[m].lhs).dims, Shape(nodes[m].rhs).dims)

\* some binary node at or below n combines two incompatible shapes
Malformed(n) == \E m \in Subtree(n) : MalformedAt(m)

Written == Cardinality({p \in 1..Len(run.out) : run.out[p] # Unset})

\* a op b in float arithmetic
Arith(op, a, b) ==
    CASE op = "AddOp" -> FAdd(a, b)
      [] op = "MinusOp" -> FAdd(a, FNeg(b))
      [] op = "MulOp" -> FMul(a, b)
      [] op = "DivOp" -> FDiv(a, b)

\* the innermost operand of a chain of unary nodes
RECURSIVE Innermost(_)
Innermost(n) == IF nodes[n].kind = "unary" THEN Innermost(nodes[n].lhs) ELSE n

(***************************************************************************)
(* C1                                                                      *)
(***************************************************************************)
\* C1: the Shape() of a binary node over broadcast-compatible operands is
\* BroadcastShape(lhs.Shape(), rhs.Shape()), at every level of the tree, so the
\* shape a Shape() call on the root returns is the fold of BroadcastShape over
\* the shapes of the leaves.
C1_BinaryShapeIsBroadcast ==
    /\ \A n \in 1..Len(nodes) :
          nodes[n].kind = "binary" =>
             LET l == Shape(nodes[n].lhs)
                 r == Shape(nodes[n].rhs)
             IN (l.ok /\ r.ok /\ ShapesCompatible(l.dims, r.dims)) =>
                   /\ Shape(n).ok
                   /\ Shape(n) = BroadcastShape(l.dims, r.dims)
    /\ call.fn = "Shape" =>
          LET ls == Leaves(call.node)
          IN call.sh = FoldBroadcast(ShapeOk(DeclaredShape(Head(ls))), Tail(ls))

\* a Shape() call on a binary node whose left operand is itself a binary node
\* that stretches a [2,1] operand and a [2] operand to [2,2]
C1_Witness ==
    /\ call.fn = "Shape"
    /\ nodes[Root].kind = "binary"
    /\ nodes[nodes[Root].lhs].kind = "binary"
    /\ Shape(nodes[nodes[Root].lhs].lhs) = ShapeOk(<<2, 1>>)
    /\ Shape(nodes[nodes[Root].lhs].rhs) = ShapeOk(<<2>>)
    /\ call.sh = ShapeOk(<<2, 2>>)

(***************************************************************************)
(* C2                                                                      *)
(***************************************************************************)
\* C2: when a binary node anywhere in the tree combines incompatible shapes, the
\* materialisation fails at the root Shape() call: no Eval call is performed and
\* no output element is written, and a failed materialisation has never
\* evaluated an element.  BroadcastShape([2,3],[4,5]) signals incompatibility.
C2_ShapeFailureBeforeEvaluation ==
    /\ (run.status # "idle" /\ Malformed(Root)) =>
          (run.status = "failed" /\ run.evals = 0 /\ Written = 0 /\ ~call.work.evals)
    /\ run.status = "failed" => (run.evals = 0 /\ Written = 0 /\ Malformed(Root))
    /\ BroadcastShape(<<2, 3>>, <<4, 5>>) = ShapeFail

\* a failed materialisation whose incompatible binary node lies below the root
C2_Witness ==
    /\ run.status = "failed"
    /\ ~MalformedAt(Root)
    /\ \E m \in Subtree(Root) \ {Root} : MalformedAt(m)

(***************************************************************************)
(* C3                                                                      *)
(***************************************************************************)
\* C3: a composition call (Scalar, TConstantExp, + - * /, ExponentExp, SqrtExp,
\* SquareExp, LogExp, AbsExp, ReluActivateExp) executes no Eval, no functor Exec
\* and no BroadcastShape and yields no scalar result; Eval runs only in an Eval
\* call (a caller's or the materialisation's), BroadcastShape only in a Shape call.
C3_CompositionNeverEvaluates ==
    /\ call.fn \in CompositionFns =>
          (call.work = NoWork /\ call.ret = Unset /\ call.log = {})
    /\ (call.work.evals \/ call.work.execs) => call.fn = "Eval"
    /\ call.work.broadcasts => call.fn \in {"Shape", "Materialize"}
    /\ run.status = "idle" => (run.evals = 0 /\ Written = 0)

\* the second composition of a nested tree: a product whose left operand is a sum
C3_Witness ==
    /\ call.fn = "operator*"
    /\ built = 2
    /\ nodes[call.node].kind = "binary"
    /\ nodes[nodes[call.node].lhs].kind = "binary"

(***************************************************************************)
(* C4                                                                      *)
(***************************************************************************)
ChainTree ==
    nodes = <<TensorA, TensorB, TScalarExp("x"), TBinaryExp("AddOp", 1, 2),
              TBinaryExp("MulOp", 4, 3)>>

\* C4: an Eval(i, c) call on the root passes the same i and c to every node below
\* it, and every composite node returns its functor applied to what its operands
\* returned; for two tensors of one shape (A op B).Eval(i) is A[i] op B[i]; and
\* (A+B)*C with A=[1,2,3], B=[10,10,10], C=2 materialises to [22,24,26].
C4_EvalIsBottomUp ==
    /\ call.fn = "Eval" =>
          /\ \A e \in call.log : e.i = call.i /\ e.c = call.c
          /\ \E e \in call.log : e.node = call.node /\ e.ret = call.ret
          /\ \A e \in call.log :
                /\ nodes[e.node].kind = "binary" =>
                      \E l \in call.log, r \in call.log :
                          /\ l.node = nodes[e.node].lhs
                          /\ r.node = nodes[e.node].rhs
                          /\ e.ret = Arith(nodes[e.node].op, l.ret, r.ret)
                /\ nodes[e.node].kind = "unary" =>
                      \E q \in call.log :
                          /\ q.node = nodes[e.node].lhs
                          /\ e.ret = UnaryExec(nodes[e.node].op, q.ret)
          /\ \A e1 \in call.log, e2 \in call.log : e1.node = e2.node => e1 = e2
    /\ (call.fn = "Eval" /\ nodes[call.node].kind = "binary"
          /\ nodes[nodes[call.node].lhs].kind = "tensor"
          /\ nodes[nodes[call.node].rhs].kind = "tensor"
          /\ nodes[nodes[call.node].lhs].shape = nodes[nodes[call.node].rhs].shape) =>
          call.ret = Arith(nodes[call.node].op,
                           nodes[nodes[call.node].lhs].data[call.i + 1],
                           nodes[nodes[call.node].rhs].data[call.i + 1])
    /\ (ChainTree /\ mem["x"] = F(2) /\ run.status = "done") =>
          run.out = <<F(22), F(24), F(26)>>

\* (A+B)*C has been materialised
C4_Witness ==
    /\ ChainTree
    /\ mem["x"] = F(2)
    /\ run.status = "done"
    /\ run.evals = 3

(***************************************************************************)
(* C5                                                                      *)
(***************************************************************************)
ScalarWithArray(n) ==
    /\ nodes[n].kind = "binary"
    /\ \/ nodes[nodes[n].lhs].kind = "scalar" /\ nodes[nodes[n].rhs].kind = "tensor"
          /\ nodes[nodes[n].rhs].shape = <<3>>
       \/ nodes[nodes[n].lhs].kind = "tensor" /\ nodes[nodes[n].rhs].kind = "scalar"
          /\ nodes[nodes[n].lhs].shape = <<3>>

\* what operand m of a scalar-with-array node contributes at output position p
OperandAt(m, p) == IF nodes[m].kind = "scalar" THEN mem[nodes[m].ref] ELSE nodes[m].data[p]

\* C5: a scalar node has shape [1] and returns the held value whatever the flat
\* index and the coordinate; a scalar combined with a [3]-shaped tensor has
\* shape [3], and each of the 3 output positions is computed from the one scalar
\* value and the tensor's element at that position.
C5_ScalarBroadcasts ==
    /\ \A n \in 1..Len(nodes) : nodes[n].kind = "scalar" => Shape(n) = ShapeOk(<<1>>)
    /\ call.fn = "Eval" =>
          \A e \in call.log :
              nodes[e.node].kind = "scalar" => e.ret = mem[nodes[e.node].ref]
    /\ ScalarWithArray(Root) =>
          /\ Shape(Root) = ShapeOk(<<3>>)
          /\ run.status \in {"running", "done"} =>
                /\ Len(run.out) = 3
                /\ \A p \in 1..3 :
                      run.out[p] # Unset =>
                         run.out[p] = Arith(nodes[Root].op,
                                            OperandAt(nodes[Root].lhs, p),
                                            OperandAt(nodes[Root].rhs, p))

\* a scalar divided by a [3]-shaped tensor has been materialised
C5_Witness ==
    /\ ScalarWithArray(Root)
    /\ nodes[Root].op = "DivOp"
    /\ nodes[nodes[Root].lhs].kind = "scalar"
    /\ run.status = "done"
    /\ Written = 3

(***************************************************************************)
(* C6                                                                      *)
(***************************************************************************)
Tracked(x) == x.k \in {"fin", "inf", "nan"}

ReluOf(x) == IF x.k \in {"fin", "inf"} /\ x.n > 0 THEN x ELSE F(0)

SquareOf(x) == [k |-> "fin", n |-> x.n * x.n, d |-> x.d * x.d]

AbsOf(x) == [x EXCEPT !.n = IF x.n < 0 THEN -x.n ELSE x.n]

InRange(x) == x.n <= MaxExact /\ x.d <= MaxExact

UnaryOver(op, tensor) ==
    /\ nodes[Root].kind = "unary"
    /\ nodes[Root].op = op
    /\ nodes[nodes[Root].lhs] = tensor

\* C6: a RectifiedLinear node returns x when x > 0 and 0 otherwise, a Square node
\* x*x (for an x*x the model tracks), an AbsoluteValue node |x|; over [-2, 0, 3] they materialise to [0, 0, 3],
\* [4, 0, 9] and [2, 0, 3].
C6_UnaryFunctors ==
    /\ call.fn = "Eval" =>
          \A e \in call.log, q \in call.log :
              (nodes[e.node].kind = "unary" /\ q.node = nodes[e.node].lhs) =>
                  /\ (nodes[e.node].op = "ReluOp" /\ Tracked(q.ret)) => e.ret = ReluOf(q.ret)
                  /\ (nodes[e.node].op = "SquareOp" /\ q.ret.k = "fin" /\ InRange(SquareOf(q.ret))) => e.ret = SquareOf(q.ret)
                  /\ (nodes[e.node].op = "AbsOp" /\ q.ret.k = "fin") => e.ret = AbsOf(q.ret)
    /\ (UnaryOver("ReluOp", TensorV) /\ run.status = "done") => run.out = <<F(0), F(0), F(3)>>
    /\ (UnaryOver("SquareOp", TensorV) /\ run.status = "done") => run.out = <<F(4), F(0), F(9)>>
    /\ (UnaryOver("AbsOp", TensorV) /\ run.status = "done") => run.out = <<F(2), F(0), F(3)>>

\* RectifiedLinear over [-2, 0, 3] has been materialised
C6_Witness ==
    /\ UnaryOver("ReluOp", TensorV)
    /\ run.status = "done"
    /\ run.out = <<F(0), F(0), F(3)>>

(***************************************************************************)
(* C7                                                                      *)
(***************************************************************************)
IsQuery(fn) == fn \in {"Eval", "Shape", "Materialize"}

C8_UnaryKeepsShape ==
    /\ \A n \in 1..Len(nodes) :
          nodes[n].kind = "unary" =>
             /\ Shape(n) = Shape(nodes[n].lhs)
             /\ Shape(n) = Shape(Innermost(n))
             /\ nodes[n].op \in UnaryOps
    /\ (call.fn = "Shape" /\ nodes[call.node].kind = "unary") =>
          call.sh = Shape(Innermost(call.node))

\* a Shape() call on a unary node over a unary node over a [2,1] tensor
C8_Witness ==
    /\ call.fn = "Shape"
    /\ nodes[Root].kind = "unary"
    /\ nodes[nodes[Root].lhs].kind = "unary"
    /\ nodes[Innermost(Root)].kind = "tensor"
    /\ call.sh = ShapeOk(<<2, 1>>)

(***************************************************************************)
(* C9                                                                      *)
(***************************************************************************)
\* C9: a constant node constructed with value v and shape s returns s itself
\* from Shape(), whatever its rank, and v from Eval whatever the flat index and
\* the coordinate; it never fails, and combined with an incompatible shape the
\* failure is the enclosing binary node's.
C9_ConstantIsVerbatim ==
    /\ call.fn = "TConstantExp" =>
          /\ Shape(call.node) = ShapeOk(call.args.dims)
          /\ \A in \in EvalInputs(call.node) :
                Eval(call.node, in[1], in[2]).ret = call.args.val
    /\ \A n \in 1..Len(nodes) :
          nodes[n].kind = "const" =>
             /\ Shape(n) = ShapeOk(nodes[n].shape)
             /\ \E v \in VarNames : nodes[n].val = birth[n][v]
    /\ call.fn = "Eval" =>
          \A e \in call.log : nodes[e.node].kind = "const" => e.ret = nodes[e.node].val
    /\ \A n \in 1..Len(nodes) :
          (nodes[n].kind = "binary" /\ ~Shape(n).ok
             /\ nodes[nodes[n].lhs].kind = "const" /\ IsLeaf(nodes[n].rhs)) =>
                (Shape(nodes[n].lhs).ok /\ MalformedAt(n))

\* a Shape() call fails on a binary node that combines a [2,2] constant with a
\* [3] tensor
C9_Witness ==
    /\ call.fn = "Shape"
    /\ ~call.sh.ok
    /\ nodes[Root].kind = "binary"
    /\ nodes[nodes[Root].lhs].kind = "const"
    /\ nodes[nodes[Root].lhs].shape = <<2, 2>>
    /\ nodes[nodes[Root].rhs].kind = "tensor"

(***************************************************************************)
(* C10                                                                     *)
(***************************************************************************)
\* C10: a scalar node reads the variable it wraps when Eval is called: after the
\* variable has changed, Eval returns its current value; a constant node returns
\* the value it was constructed with.
C10_ScalarByReferenceConstantByValue ==
    /\ call.fn = "Eval" =>
          \A e \in call.log :
              /\ nodes[e.node].kind = "scalar" => e.ret = mem[nodes[e.node].ref]
              /\ nodes[e.node].kind = "const" =>
                    \E v \in VarNames : e.ret = birth[e.node][v]
    /\ call.fn = "Scalar" => nodes[call.node].ref = call.args.ref
    /\ call.fn = "TConstantExp" => nodes[call.node].val = call.args.val

\* an Eval call on a tree with a scalar node and a constant node, both
\* constructed before the variable changed
C10_Witness ==
    /\ call.fn = "Eval"
    /\ \E e \in call.log :
          /\ nodes[e.node].kind = "scalar"
          /\ birth[e.node][nodes[e.node].ref] # mem[nodes[e.node].ref]
          /\ e.ret = F(0)
    /\ \E e \in call.log :
          /\ nodes[e.node].kind = "const"
          /\ birth[e.node] # mem
          /\ e.ret = F(2)

====
